---- MODULE Spec2Model ----
(***************************************************************************)
(* State machine of sfz::MidiState (src/sfizz/MidiState.cpp): the note     *)
(* table, the controller / pitch-bend / channel-aftertouch event vectors   *)
(* and the sample clock of the sfizz engine.                               *)
(*                                                                         *)
(* Float payloads (velocities, controller values) are carried as small     *)
(* integer levels: the code only stores and copies them.  An unsigned      *)
(* 32-bit quantity x mod 2^32 is written [carry, low] with value           *)
(* carry * 2^32 + low, since 2^32 itself is not a number TLC can hold.     *)
(***************************************************************************)
EXTENDS Integers, Sequences, FiniteSets

\* ---------------------------------------------------------------- bounds
MaxDelay == 1          \* event offsets are drawn from 0..MaxDelay
MaxBlockEvents == 2    \* events are taken while fewer entries were added in the block
MaxClock == 2          \* advanceTime is not taken beyond this clock value
MaxActive == 2         \* noteOnEvent is not taken beyond this active count
MaxPanic == 130        \* same cap, for the repeated note-on runs (PanicSpec)
NumCCs == 1            \* config::numCCs, scaled down

\* ------------------------------------------------------ program constants
NumNotes == 128
DefaultSampleRate == 48000
DefaultSamplesPerBlock == 1024

Notes == 0 .. (NumNotes - 1)
CCs == 0 .. (NumCCs - 1)

\* ----------------------------------------------------------------- inputs
Delays == 0 .. MaxDelay
NoteInputs == {60, 127}
Velocities == {1}
CCValues == {0, 1}
BendValues == {-1}
AftertouchValues == {1}
SampleRates == {44100}
BlockLengths == {512}
BlockSamples == {0, 2}
NoteOnVelocities == {1, 2}
NoteOffVelocities == {3}
InvalidNotes == {-1, NumNotes}
InvalidCCs == {-1, NumCCs}

VARIABLES
    sampleRate,              \* float sampleRate
    samplesPerBlock,         \* int samplesPerBlock
    internalClock,           \* unsigned internalClock
    activeNotes,             \* int activeNotes
    lastNotePlayed,          \* int lastNotePlayed
    lastNoteVelocities,      \* std::array<float, 128>
    noteOnTimes,             \* std::array<unsigned, 128>
    noteOffTimes,            \* std::array<unsigned, 128>
    cc,                      \* std::array<EventVector, config::numCCs>
    pitchEvents,             \* EventVector
    channelAftertouchEvents, \* EventVector
    lastNoteEvent,           \* history: per note, its most recent note event
    lastLaneCall,            \* history: the last operation that wrote the event vectors
    blockOffset,             \* history: the greatest offset used in the current block
    lastOutOfRange           \* history: what the last out-of-range call came to

noteVars == <<activeNotes, lastNotePlayed, lastNoteVelocities, noteOnTimes,
              noteOffTimes, lastNoteEvent>>
laneVars == <<cc, pitchEvents, channelAftertouchEvents>>
history == <<lastLaneCall, blockOffset, lastOutOfRange>>
vars == <<sampleRate, samplesPerBlock, internalClock, noteVars, laneVars, history>>

Max(a, b) == IF a >= b THEN a ELSE b

\* the record kept in lastLaneCall: the operation and the offset it was given
\* (0 for the operations that take none)
Call(op, delay) == [op |-> op, delay |-> delay]

\* ------------------------------------------------------------ event vectors
MidiEvent(delay, value) == [delay |-> delay, value |-> value]

\* MidiEventDelayComparator{}(delay, event), the order upper_bound searches by
MidiEventDelayComparator(delay, event) == delay < event.delay

\* std::upper_bound over [first, first + count): the binary search of the
\* standard library, returning an index in 1..Len(events)+1 (Len+1 is end())
RECURSIVE UpperBoundFrom(_, _, _, _)
UpperBoundFrom(events, delay, first, count) ==
    IF count <= 0 THEN first
    ELSE LET step == count \div 2
             it == first + step
         IN IF ~MidiEventDelayComparator(delay, events[it])
            THEN UpperBoundFrom(events, delay, it + 1, count - (step + 1))
            ELSE UpperBoundFrom(events, delay, first, step)

c_upper_bound(events, delay) == UpperBoundFrom(events, delay, 1, Len(events))

\* events.insert(position, event): the new entry goes before index position
VectorInsert(events, position, event) ==
    SubSeq(events, 1, position - 1) \o <<event>> \o SubSeq(events, position, Len(events))

\* A plausible slip: the new entry is always appended at the end
InsertEventInVectorAppend(events, delay, value) ==
    Append(events, MidiEvent(delay, value))

\* A plausible slip: the new entry is placed at the front of the vector
InsertEventInVectorFront(events, delay, value) ==
    <<MidiEvent(delay, value)>> \o events

insertEventInVector(events, delay, value) ==
    LET insertionPoint == c_upper_bound(events, delay)
    IN IF insertionPoint = Len(events) + 1 \/ events[insertionPoint].delay # delay
       THEN VectorInsert(events, insertionPoint, MidiEvent(delay, value))
       ELSE [events EXCEPT ![insertionPoint].value = value]

\* A plausible slip: the carried value is the front's, not the back's
ClearEventsKeepFront(events) ==
    <<MidiEvent(0, events[1].value)>>

\* A plausible slip: resize(2), which leaves a second entry behind (a
\* value-initialised one when the vector held a single entry)
ClearEventsResizeTwo(events) ==
    LET front == [events[1] EXCEPT !.value = events[Len(events)].value]
        second == IF Len(events) >= 2 THEN events[2] ELSE MidiEvent(0, 0)
    IN <<[front EXCEPT !.delay = 0], second>>

\* clearEvents of advanceTime: front takes back's value, delay 0, resize(1)
AdvanceClearEvents(events) ==
    LET front == [events[1] EXCEPT !.value = events[Len(events)].value]
    IN <<[front EXCEPT !.delay = 0]>>

\* clearEvents of reset: clear(), push_back({0, 0.0f})
ResetClearEvents == <<MidiEvent(0, 0)>>

\* events.back().value
Latest(events) == events[Len(events)].value

getPitchBend == Latest(pitchEvents)
getChannelAftertouch == Latest(channelAftertouchEvents)
getCCValue(ccNumber) == Latest(cc[ccNumber])

AllLanes == {cc[i] : i \in CCs} \cup {pitchEvents, channelAftertouchEvents}

\* entries added to the vectors in the current block
BlockEvents ==
    LET RECURSIVE SumCC(_)
        SumCC(i) == IF i < 0 THEN 0 ELSE (Len(cc[i]) - 1) + SumCC(i - 1)
    IN SumCC(NumCCs - 1) + (Len(pitchEvents) - 1) + (Len(channelAftertouchEvents) - 1)

\* the records kept in lastNoteEvent: the kind of the note's most recent note
\* event, its timestamp, whether setSampleRate restarted the clock since, and
\* the velocity of the note's most recent note-on
NoteEvent(kind, at, velocity) ==
    [kind |-> kind, at |-> at, stale |-> FALSE, velocity |-> velocity]
NoNoteEvent == NoteEvent("none", 0, 0)

\* ------------------------------------------------------------------- Init
\* MidiState::MidiState() calls reset() on the default-initialised members
Init ==
    /\ sampleRate = DefaultSampleRate
    /\ samplesPerBlock = DefaultSamplesPerBlock
    /\ internalClock = 0
    /\ activeNotes = 0
    /\ lastNotePlayed = 0
    /\ lastNoteVelocities = [n \in Notes |-> 0]
    /\ noteOnTimes = [n \in Notes |-> 0]
    /\ noteOffTimes = [n \in Notes |-> 0]
    /\ cc = [i \in CCs |-> ResetClearEvents]
    /\ pitchEvents = ResetClearEvents
    /\ channelAftertouchEvents = ResetClearEvents
    /\ lastNoteEvent = [n \in Notes |-> NoNoteEvent]
    /\ lastLaneCall = Call("MidiState", 0)
    /\ blockOffset = 0
    /\ lastOutOfRange = "none"

\* ------------------------------------------------------------ lane actions
\* cc[ccNumber] with ccNumber outside the array is undefined behaviour: the
\* build may fault, may write where nothing reads ("unseen"), or may write
\* into the member next to the array ("stray", here the pitch vector)
OutOfRangeOutcomes == {"fault", "unseen", "stray"}

ccEventOutOfRange(delay, ccValue) ==
    \E outcome \in OutOfRangeOutcomes :
        /\ lastOutOfRange' = outcome
        /\ IF outcome = "stray"
           THEN /\ pitchEvents' = insertEventInVector(pitchEvents, delay, ccValue)
                /\ UNCHANGED <<cc, channelAftertouchEvents>>
           ELSE UNCHANGED laneVars

ccEvent(delay, ccNumber, ccValue) ==
    /\ IF ccNumber \in CCs
       THEN /\ cc' = [cc EXCEPT ![ccNumber] = insertEventInVector(@, delay, ccValue)]
            /\ UNCHANGED <<pitchEvents, channelAftertouchEvents, lastOutOfRange>>
       ELSE ccEventOutOfRange(delay, ccValue)
    /\ lastLaneCall' = Call("ccEvent", delay)
    /\ blockOffset' = Max(blockOffset, delay)
    /\ UNCHANGED <<sampleRate, samplesPerBlock, internalClock, noteVars>>

\* getNoteVelocity(noteNumber) and getCCValue(ccNumber) outside their arrays:
\* an unchecked read, which faults or returns whatever lies there
ReadOutOfRange ==
    /\ lastOutOfRange' \in {"fault", "garbage"}
    /\ UNCHANGED <<sampleRate, samplesPerBlock, internalClock, noteVars, laneVars,
                   lastLaneCall, blockOffset>>


pitchBendEvent(delay, pitchBendValue) ==
    /\ pitchEvents' = insertEventInVector(pitchEvents, delay, pitchBendValue)
    /\ lastLaneCall' = Call("pitchBendEvent", delay)
    /\ blockOffset' = Max(blockOffset, delay)
    /\ UNCHANGED lastOutOfRange
    /\ UNCHANGED <<sampleRate, samplesPerBlock, internalClock, noteVars,
                   cc, channelAftertouchEvents>>

channelAftertouchEvent(delay, aftertouch) ==
    /\ channelAftertouchEvents' =
           insertEventInVector(channelAftertouchEvents, delay, aftertouch)
    /\ lastLaneCall' = Call("channelAftertouchEvent", delay)
    /\ blockOffset' = Max(blockOffset, delay)
    /\ UNCHANGED lastOutOfRange
    /\ UNCHANGED <<sampleRate, samplesPerBlock, internalClock, noteVars,
                   cc, pitchEvents>>

\* A plausible slip: the pitch bend is left out of the reset
resetAllControllersNoPitch(delay) ==
    /\ cc' = [i \in CCs |-> insertEventInVector(cc[i], delay, 0)]
    /\ lastLaneCall' = Call("resetAllControllers", delay)
    /\ blockOffset' = Max(blockOffset, delay)
    /\ UNCHANGED lastOutOfRange
    /\ UNCHANGED <<sampleRate, samplesPerBlock, internalClock, noteVars,
                   pitchEvents, channelAftertouchEvents>>

\* A plausible slip: the channel aftertouch is reset along with the rest
resetAllControllersAndAftertouch(delay) ==
    /\ cc' = [i \in CCs |-> insertEventInVector(cc[i], delay, 0)]
    /\ pitchEvents' = insertEventInVector(pitchEvents, delay, 0)
    /\ channelAftertouchEvents' = insertEventInVector(channelAftertouchEvents, delay, 0)
    /\ lastLaneCall' = Call("resetAllControllers", delay)
    /\ blockOffset' = Max(blockOffset, delay)
    /\ UNCHANGED lastOutOfRange
    /\ UNCHANGED <<sampleRate, samplesPerBlock, internalClock, noteVars>>

\* ccEvent(delay, ccIdx, 0.0f) for every ccIdx, then pitchBendEvent(delay, 0.0f)
resetAllControllers(delay) ==
    /\ cc' = [i \in CCs |-> insertEventInVector(cc[i], delay, 0)]
    /\ pitchEvents' = insertEventInVector(pitchEvents, delay, 0)
    /\ lastLaneCall' = Call("resetAllControllers", delay)
    /\ blockOffset' = Max(blockOffset, delay)
    /\ UNCHANGED lastOutOfRange
    /\ UNCHANGED <<sampleRate, samplesPerBlock, internalClock, noteVars,
                   channelAftertouchEvents>>

\* A plausible slip: the clock is assigned the sample count, not advanced by it
advanceTimeAssign(numSamples) ==
    /\ internalClock' = numSamples
    /\ cc' = [i \in CCs |-> AdvanceClearEvents(cc[i])]
    /\ pitchEvents' = AdvanceClearEvents(pitchEvents)
    /\ channelAftertouchEvents' = AdvanceClearEvents(channelAftertouchEvents)
    /\ lastLaneCall' = Call("advanceTime", 0)
    /\ blockOffset' = 0
    /\ UNCHANGED lastOutOfRange
    /\ UNCHANGED <<sampleRate, samplesPerBlock, noteVars>>

\* A plausible slip: the vectors are collapsed but the clock is left alone
advanceTimeNoClock(numSamples) ==
    /\ cc' = [i \in CCs |-> AdvanceClearEvents(cc[i])]
    /\ pitchEvents' = AdvanceClearEvents(pitchEvents)
    /\ channelAftertouchEvents' = AdvanceClearEvents(channelAftertouchEvents)
    /\ lastLaneCall' = Call("advanceTime", 0)
    /\ blockOffset' = 0
    /\ UNCHANGED lastOutOfRange
    /\ UNCHANGED <<sampleRate, samplesPerBlock, internalClock, noteVars>>

advanceTime(numSamples) ==
    /\ internalClock' = internalClock + numSamples
    /\ cc' = [i \in CCs |-> AdvanceClearEvents(cc[i])]
    /\ pitchEvents' = AdvanceClearEvents(pitchEvents)
    /\ channelAftertouchEvents' = AdvanceClearEvents(channelAftertouchEvents)
    /\ lastLaneCall' = Call("advanceTime", 0)
    /\ blockOffset' = 0
    /\ UNCHANGED lastOutOfRange
    /\ UNCHANGED <<sampleRate, samplesPerBlock, noteVars>>

\* shrink_to_fit / reserve change capacity only, never the contents
setSamplesPerBlock(n) ==
    /\ samplesPerBlock' = n
    /\ UNCHANGED history
    /\ UNCHANGED <<sampleRate, internalClock, noteVars, laneVars>>

\* A plausible slip: the velocities are cleared along with the timestamps
setSampleRateClearsVelocities(rate) ==
    /\ sampleRate' = rate
    /\ internalClock' = 0
    /\ noteOnTimes' = [n \in Notes |-> 0]
    /\ noteOffTimes' = [n \in Notes |-> 0]
    /\ lastNoteVelocities' = [n \in Notes |-> 0]
    /\ lastNoteEvent' = [n \in Notes |-> [lastNoteEvent[n] EXCEPT !.stale = TRUE]]
    /\ UNCHANGED history
    /\ UNCHANGED <<samplesPerBlock, activeNotes, lastNotePlayed, laneVars>>

setSampleRate(rate) ==
    /\ sampleRate' = rate
    /\ internalClock' = 0
    /\ noteOnTimes' = [n \in Notes |-> 0]
    /\ noteOffTimes' = [n \in Notes |-> 0]
    /\ lastNoteEvent' = [n \in Notes |-> [lastNoteEvent[n] EXCEPT !.stale = TRUE]]
    /\ UNCHANGED history
    /\ UNCHANGED <<samplesPerBlock, activeNotes, lastNotePlayed,
                   lastNoteVelocities, laneVars>>

\* A plausible slip: the note-on timestamps are left out of the reset
resetKeepsNoteOnTimes ==
    /\ lastNoteVelocities' = [n \in Notes |-> 0]
    /\ cc' = [i \in CCs |-> ResetClearEvents]
    /\ pitchEvents' = ResetClearEvents
    /\ channelAftertouchEvents' = ResetClearEvents
    /\ activeNotes' = 0
    /\ internalClock' = 0
    /\ lastNotePlayed' = 0
    /\ noteOffTimes' = [n \in Notes |-> 0]
    /\ lastNoteEvent' = [n \in Notes |-> NoNoteEvent]
    /\ lastLaneCall' = Call("reset", 0)
    /\ blockOffset' = 0
    /\ UNCHANGED lastOutOfRange
    /\ UNCHANGED <<sampleRate, samplesPerBlock, noteOnTimes>>

reset ==
    /\ lastNoteVelocities' = [n \in Notes |-> 0]
    /\ cc' = [i \in CCs |-> ResetClearEvents]
    /\ pitchEvents' = ResetClearEvents
    /\ channelAftertouchEvents' = ResetClearEvents
    /\ activeNotes' = 0
    /\ internalClock' = 0
    /\ lastNotePlayed' = 0
    /\ noteOnTimes' = [n \in Notes |-> 0]
    /\ noteOffTimes' = [n \in Notes |-> 0]
    /\ lastNoteEvent' = [n \in Notes |-> NoNoteEvent]
    /\ lastLaneCall' = Call("reset", 0)
    /\ blockOffset' = 0
    /\ UNCHANGED lastOutOfRange
    /\ UNCHANGED <<sampleRate, samplesPerBlock>>

\* ------------------------------------------------------------ note actions
\* A plausible slip: the range test lets 128 through
noteOnEventOffByOne(delay, noteNumber, velocity) ==
    /\ IF noteNumber >= 0 /\ noteNumber <= 128
       THEN /\ lastNoteVelocities' = [lastNoteVelocities EXCEPT ![noteNumber] = velocity]
            /\ noteOnTimes' = [noteOnTimes EXCEPT ![noteNumber] = internalClock + delay]
            /\ lastNotePlayed' = noteNumber
            /\ activeNotes' = activeNotes + 1
            /\ lastNoteEvent' = [lastNoteEvent EXCEPT ![noteNumber] =
                                     NoteEvent("on", internalClock + delay, velocity)]
            /\ UNCHANGED lastOutOfRange
       ELSE /\ UNCHANGED <<lastNoteVelocities, noteOnTimes, lastNotePlayed, activeNotes,
                           lastNoteEvent>>
            /\ lastOutOfRange' = "ignored"
    /\ blockOffset' = Max(blockOffset, delay)
    /\ UNCHANGED lastLaneCall
    /\ UNCHANGED <<sampleRate, samplesPerBlock, internalClock, noteOffTimes, laneVars>>

noteOnEvent(delay, noteNumber, velocity) ==
    /\ IF noteNumber >= 0 /\ noteNumber < 128
       THEN /\ lastNoteVelocities' = [lastNoteVelocities EXCEPT ![noteNumber] = velocity]
            /\ noteOnTimes' = [noteOnTimes EXCEPT ![noteNumber] = internalClock + delay]
            /\ lastNotePlayed' = noteNumber
            /\ activeNotes' = activeNotes + 1
            /\ lastNoteEvent' = [lastNoteEvent EXCEPT ![noteNumber] =
                                     NoteEvent("on", internalClock + delay, velocity)]
            /\ UNCHANGED lastOutOfRange
       ELSE /\ UNCHANGED <<lastNoteVelocities, noteOnTimes, lastNotePlayed, activeNotes,
                           lastNoteEvent>>
            /\ lastOutOfRange' = "ignored"
    /\ blockOffset' = Max(blockOffset, delay)
    /\ UNCHANGED lastLaneCall
    /\ UNCHANGED <<sampleRate, samplesPerBlock, internalClock, noteOffTimes, laneVars>>

\* if (activeNotes > 0) activeNotes--;
NoteOffCount(active) == IF active > 0 THEN active - 1 ELSE active

\* A plausible slip: the release velocity is stored like a note-on velocity
noteOffEventStoresVelocity(delay, noteNumber, velocity) ==
    /\ IF noteNumber >= 0 /\ noteNumber < 128
       THEN /\ noteOffTimes' = [noteOffTimes EXCEPT ![noteNumber] = internalClock + delay]
            /\ lastNoteVelocities' = [lastNoteVelocities EXCEPT ![noteNumber] = velocity]
            /\ activeNotes' = NoteOffCount(activeNotes)
            /\ lastNoteEvent' = [lastNoteEvent EXCEPT ![noteNumber] =
                                     NoteEvent("off", internalClock + delay, @.velocity)]
            /\ UNCHANGED lastOutOfRange
       ELSE /\ UNCHANGED <<noteOffTimes, lastNoteVelocities, activeNotes, lastNoteEvent>>
            /\ lastOutOfRange' = "ignored"
    /\ blockOffset' = Max(blockOffset, delay)
    /\ UNCHANGED lastLaneCall
    /\ UNCHANGED <<sampleRate, samplesPerBlock, internalClock, lastNotePlayed,
                   noteOnTimes, laneVars>>

noteOffEvent(delay, noteNumber, velocity) ==
    /\ IF noteNumber >= 0 /\ noteNumber < 128
       THEN /\ noteOffTimes' = [noteOffTimes EXCEPT ![noteNumber] = internalClock + delay]
            /\ activeNotes' = NoteOffCount(activeNotes)
            /\ lastNoteEvent' = [lastNoteEvent EXCEPT ![noteNumber] =
                                     NoteEvent("off", internalClock + delay, @.velocity)]
            /\ UNCHANGED lastOutOfRange
       ELSE /\ UNCHANGED <<noteOffTimes, activeNotes, lastNoteEvent>>
            /\ lastOutOfRange' = "ignored"
    /\ blockOffset' = Max(blockOffset, delay)
    /\ UNCHANGED lastLaneCall
    /\ UNCHANGED <<sampleRate, samplesPerBlock, internalClock, lastNotePlayed,
                   lastNoteVelocities, noteOnTimes, laneVars>>

\* activeNotes after the noteOffEvent calls for first, first + 1, ..., last,
\* in this order.  The range is halved, and the count after the first half is
\* computed (CASE) before the second half runs, to keep the evaluation shallow
RECURSIVE AllNotesOffCount(_, _, _)
AllNotesOffCount(active, first, last) ==
    IF first > last THEN active
    ELSE IF first = last THEN NoteOffCount(active)
    ELSE LET mid == (first + last) \div 2
             half == AllNotesOffCount(active, first, mid)
         IN CASE half \in Int -> AllNotesOffCount(half, mid + 1, last)

\* A plausible slip: each note's velocity is given the 0.0f the loop passes
allNotesOffClearsVelocities(delay) ==
    /\ noteOffTimes' = [n \in Notes |-> internalClock + delay]
    /\ lastNoteVelocities' = [n \in Notes |-> 0]
    /\ activeNotes' = AllNotesOffCount(activeNotes, 0, NumNotes - 1)
    /\ lastNoteEvent' = [n \in Notes |->
                             NoteEvent("off", internalClock + delay, lastNoteEvent[n].velocity)]
    /\ blockOffset' = Max(blockOffset, delay)
    /\ UNCHANGED <<lastLaneCall, lastOutOfRange>>
    /\ UNCHANGED <<sampleRate, samplesPerBlock, internalClock, lastNotePlayed,
                   noteOnTimes, laneVars>>

\* for (note = 0; note < 128; note++) noteOffEvent(delay, note, 0.0f):
\* every note of 0..127 is valid, so each call writes its timestamp
allNotesOff(delay) ==
    /\ noteOffTimes' = [n \in Notes |-> internalClock + delay]
    /\ activeNotes' = AllNotesOffCount(activeNotes, 0, NumNotes - 1)
    /\ lastNoteEvent' = [n \in Notes |->
                             NoteEvent("off", internalClock + delay, lastNoteEvent[n].velocity)]
    /\ blockOffset' = Max(blockOffset, delay)
    /\ UNCHANGED <<lastLaneCall, lastOutOfRange>>
    /\ UNCHANGED <<sampleRate, samplesPerBlock, internalClock, lastNotePlayed,
                   lastNoteVelocities, noteOnTimes, laneVars>>

\* ------------------------------------------------------------ note queries
\* x mod 2^32 for -2^32 < x < 2^32, written carry * 2^32 + low
ToUnsigned(x) == [carry |-> IF x < 0 THEN 1 ELSE 0, low |-> x]

\* A float number of seconds: samples / rate.  0.0f is 0 samples at any rate.
ZeroSeconds == [samples |-> ToUnsigned(0), rate |-> 1]
Seconds(samples, rate) ==
    IF samples = ToUnsigned(0) THEN ZeroSeconds ELSE [samples |-> samples, rate |-> rate]

\* A plausible slip: the guard forgets that 0 means "has not happened"
getNoteDurationNoSentinel(noteNumber, delay) ==
    IF noteNumber < 0 \/ noteNumber >= 128 THEN ZeroSeconds
    ELSE IF noteOnTimes[noteNumber] > noteOffTimes[noteNumber] THEN ZeroSeconds
    ELSE Seconds(ToUnsigned(internalClock + delay - noteOnTimes[noteNumber]), sampleRate)

\* A plausible slip: the offset of the query is dropped
getNoteDurationNoDelay(noteNumber, delay) ==
    IF noteNumber < 0 \/ noteNumber >= 128 THEN ZeroSeconds
    ELSE IF /\ noteOnTimes[noteNumber] # 0
            /\ noteOffTimes[noteNumber] # 0
            /\ noteOnTimes[noteNumber] > noteOffTimes[noteNumber]
         THEN ZeroSeconds
    ELSE Seconds(ToUnsigned(internalClock - noteOnTimes[noteNumber]), sampleRate)

getNoteDuration(noteNumber, delay) ==
    IF noteNumber < 0 \/ noteNumber >= 128 THEN ZeroSeconds
    ELSE IF /\ noteOnTimes[noteNumber] # 0
            /\ noteOffTimes[noteNumber] # 0
            /\ noteOnTimes[noteNumber] > noteOffTimes[noteNumber]
         THEN ZeroSeconds
    ELSE Seconds(ToUnsigned(internalClock + delay - noteOnTimes[noteNumber]), sampleRate)

getNoteVelocity(noteNumber) == lastNoteVelocities[noteNumber]
getLastVelocity == lastNoteVelocities[lastNotePlayed]

\* ---------------------------------------------------------- specifications
\* The controller, pitch-bend and aftertouch side, with the block lifecycle
NextLanes ==
    \/ \E d \in Delays, i \in CCs, v \in CCValues :
           BlockEvents < MaxBlockEvents /\ ccEvent(d, i, v)
    \/ \E d \in Delays, v \in BendValues :
           BlockEvents < MaxBlockEvents /\ pitchBendEvent(d, v)
    \/ \E d \in Delays, v \in AftertouchValues :
           BlockEvents < MaxBlockEvents /\ channelAftertouchEvent(d, v)
    \/ \E d \in Delays : BlockEvents < MaxBlockEvents /\ resetAllControllers(d)
    \/ \E n \in BlockSamples : internalClock + n <= MaxClock /\ advanceTime(n)
    \/ setSamplesPerBlock(DefaultSamplesPerBlock)
    \/ setSampleRate(DefaultSampleRate)
    \/ reset

LaneSpec == Init /\ [][NextLanes]_vars

\* The note side, with the clock
NextNotes ==
    \/ \E d \in Delays, n \in NoteInputs, v \in Velocities :
           activeNotes < MaxActive /\ noteOnEvent(d, n, v)
    \/ \E d \in Delays, n \in NoteInputs, v \in Velocities : noteOffEvent(d, n, v)
    \/ \E d \in Delays : allNotesOff(d)
    \/ \E n \in BlockSamples : internalClock + n <= MaxClock /\ advanceTime(n)
    \/ reset

NoteSpec == Init /\ [][NextNotes]_vars

\* Repeated note-ons of one note, up to more than there are notes
NextPanic ==
    \/ activeNotes < MaxPanic /\ noteOnEvent(0, 60, 1)
    \/ \E d \in Delays : noteOffEvent(d, 60, 1)
    \/ \E d \in Delays : allNotesOff(d)
    \/ \E n \in BlockSamples : internalClock + n <= MaxClock /\ advanceTime(n)

PanicSpec == Init /\ [][NextPanic]_vars

\* Every operation
\* notes, vectors and configuration side by side, one note and one controller
NextMixed ==
    \/ \E v \in Velocities : activeNotes < MaxActive /\ noteOnEvent(0, 60, v)
    \/ \E v \in NoteOffVelocities : noteOffEvent(0, 60, v)
    \/ \E d \in Delays, v \in AftertouchValues :
            BlockEvents < MaxBlockEvents /\ channelAftertouchEvent(d, v)
    \/ BlockEvents = 0 /\ ccEvent(0, 0, 1)
    \/ \E d \in Delays : BlockEvents < MaxBlockEvents /\ resetAllControllers(d)
    \/ \E n \in BlockSamples : internalClock + n <= MaxClock /\ advanceTime(n)
    \/ \E r \in SampleRates : setSampleRate(r)
    \/ \E n \in BlockLengths : setSamplesPerBlock(n)
    \/ reset

MixedSpec == Init /\ [][NextMixed]_vars

\* two notes with distinguishable velocities, between the other operations
NextVelocity ==
    \/ \E v \in NoteOnVelocities : activeNotes < MaxActive /\ noteOnEvent(0, 60, v)
    \/ \E v \in Velocities : activeNotes < MaxActive /\ noteOnEvent(0, 127, v)
    \/ \E d \in Delays, v \in NoteOffVelocities : noteOffEvent(d, 60, v)
    \/ allNotesOff(0)
    \/ BlockEvents = 0 /\ ccEvent(0, 0, 1)
    \/ \E n \in BlockSamples : internalClock + n <= MaxClock /\ advanceTime(n)
    \/ \E r \in SampleRates : setSampleRate(r)
    \/ \E n \in BlockLengths : setSamplesPerBlock(n)
    \/ reset

VelocitySpec == Init /\ [][NextVelocity]_vars

\* normal operation: within a block the offsets of successive calls do not
\* decrease, and the block is closed by one advanceTime whose sample count is
\* at least every offset used in it
NextNormal ==
    \/ \E d \in Delays, v \in Velocities :
            d >= blockOffset /\ activeNotes < MaxActive /\ noteOnEvent(d, 60, v)
    \/ \E d \in Delays, v \in Velocities : d >= blockOffset /\ noteOffEvent(d, 60, v)
    \/ \E d \in Delays : d >= blockOffset /\ allNotesOff(d)
    \/ \E d \in Delays :
            d >= blockOffset /\ BlockEvents < MaxBlockEvents /\ ccEvent(d, 0, 1)
    \/ \E n \in BlockSamples :
            n >= blockOffset /\ internalClock + n <= MaxClock /\ advanceTime(n)
    \/ \E r \in SampleRates : setSampleRate(r)
    \/ reset

NormalSpec == Init /\ [][NextNormal]_vars

\* calls whose note number or controller index is outside the table, between
\* calls that are in range
NextBounds ==
    \/ \E d \in Delays, n \in InvalidNotes, v \in Velocities : noteOnEvent(d, n, v)
    \/ \E d \in Delays, n \in InvalidNotes, v \in Velocities : noteOffEvent(d, n, v)
    \/ \E d \in Delays, i \in InvalidCCs :
            BlockEvents < MaxBlockEvents /\ ccEvent(d, i, 1)
    \/ ReadOutOfRange
    \/ \E v \in Velocities : activeNotes < MaxActive /\ noteOnEvent(0, 60, v)
    \/ \E v \in Velocities : noteOffEvent(0, 60, v)
    \/ BlockEvents = 0 /\ ccEvent(0, 0, 1)
    \/ \E n \in BlockSamples : internalClock + n <= MaxClock /\ advanceTime(n)
    \/ reset

BoundsSpec == Init /\ [][NextBounds]_vars

Next ==
    \/ NextMixed
    \/ NextVelocity
    \/ NextNormal
    \/ NextBounds
    \/ NextLanes
    \/ NextNotes
    \/ \E r \in SampleRates : setSampleRate(r)
    \/ \E n \in BlockLengths : setSamplesPerBlock(n)

Spec == Init /\ [][Next]_vars

\* ------------------------------------------------------- claim vocabulary
ControllerLanes == {cc[i] : i \in CCs} \cup {pitchEvents}

StrictlyAscending(events) ==
    \A i \in 1 .. (Len(events) - 1) : events[i].delay < events[i + 1].delay

HasOffset(events, delay) == \E k \in 1 .. Len(events) : events[k].delay = delay

\* the values of the entries whose offset is the greatest in the vector
HighestOffsetValues(events) ==
    {events[k].value : k \in {j \in 1 .. Len(events) :
        \A i \in 1 .. Len(events) : events[i].delay <= events[j].delay}}

\* the entry in effect at an offset: the last one whose offset is not later
InEffect(events, delay) ==
    LET upTo == {k \in 1 .. Len(events) : events[k].delay <= delay}
    IN events[CHOOSE k \in upTo : \A j \in upTo : j <= k]

\* one insertion into a vector at an offset it already holds grew it by none
\* and left exactly one entry at that offset, carrying the new value
Overwrote(before, after, delay, value) ==
    /\ Len(after) = Len(before)
    /\ \A k \in 1 .. Len(after) : after[k].delay = delay => after[k].value = value

\* ------------------------------------------------------------------ claims
\* C1: in every reachable state every event vector (each controller's, the
\* pitch-bend one, the aftertouch one) is strictly ascending by offset, so it
\* holds at most one entry per offset.
C1_LanesStrictlyAscending ==
    \A events \in AllLanes : StrictlyAscending(events)

\* C2: an event inserted (ccEvent, pitchBendEvent, channelAftertouchEvent) at
\* an offset the vector already holds, the offset-0 sentinel included,
\* overwrites that entry's value and leaves the vector's length unchanged.
C2_SameOffsetOverwrites ==
    [][/\ \A d \in Delays, i \in CCs, v \in CCValues :
            (ccEvent(d, i, v) /\ HasOffset(cc[i], d))
                => Overwrote(cc[i], cc'[i], d, v)
       /\ \A d \in Delays, v \in BendValues :
            (pitchBendEvent(d, v) /\ HasOffset(pitchEvents, d))
                => Overwrote(pitchEvents, pitchEvents', d, v)
       /\ \A d \in Delays, v \in AftertouchValues :
            (channelAftertouchEvent(d, v) /\ HasOffset(channelAftertouchEvents, d))
                => Overwrote(channelAftertouchEvents, channelAftertouchEvents', d, v)
      ]_vars

\* C3: advanceTime(numSamples) adds exactly numSamples to the clock and leaves
\* every event vector with one entry, at offset 0, carrying the value that was
\* the vector's latest before the call; each latest value is thus unchanged.
Collapsed(before, after) ==
    /\ Len(after) = 1
    /\ after[1].delay = 0
    /\ after[1].value = before[Len(before)].value

C3_AdvanceCollapsesLanes ==
    [][\A n \in BlockSamples :
          advanceTime(n) =>
              /\ internalClock' = internalClock + n
              /\ \A i \in CCs : Collapsed(cc[i], cc'[i]) /\ getCCValue(i)' = getCCValue(i)
              /\ Collapsed(pitchEvents, pitchEvents') /\ getPitchBend' = getPitchBend
              /\ Collapsed(channelAftertouchEvents, channelAftertouchEvents')
              /\ getChannelAftertouch' = getChannelAftertouch
      ]_vars

\* C3 witness: a block with controller, pitch-bend and aftertouch events was
\* advanced by a positive number of samples and the values were carried over.
C3_Witness ==
    /\ lastLaneCall.op = "advanceTime"
    /\ internalClock > 0
    /\ cc[0] = <<MidiEvent(0, 1)>>
    /\ pitchEvents = <<MidiEvent(0, -1)>>

\* C4: in every reachable state each latest-value accessor (getCCValue,
\* getPitchBend, getChannelAftertouch) returns the value of an entry whose
\* offset is the greatest in its vector, also after out-of-order insertions.
C4_LatestIsHighestOffset ==
    /\ \A i \in CCs : getCCValue(i) \in HighestOffsetValues(cc[i])
    /\ getPitchBend \in HighestOffsetValues(pitchEvents)
    /\ getChannelAftertouch \in HighestOffsetValues(channelAftertouchEvents)

\* C4 witness: a controller event at offset 0 arrived after one at offset 1,
\* with a different value than the later-offset entry holds.
C4_Witness ==
    /\ lastLaneCall = Call("ccEvent", 0)
    /\ Len(cc[0]) = 3
    /\ cc[0][3].delay = 1
    /\ cc[0][2].value # cc[0][3].value

\* C5: in every reachable state every event vector is non-empty and its first
\* entry is at offset 0.
C5_LanesStartAtZero ==
    \A events \in AllLanes : Len(events) >= 1 /\ events[1].delay = 0

\* C5 witness: events at offset 0 and later were inserted into the pitch-bend
\* vector, and the last of them came at offset 0.
C5_Witness ==
    /\ lastLaneCall = Call("pitchBendEvent", 0)
    /\ Len(pitchEvents) = 3
    /\ pitchEvents[3].delay > 0

\* C10: after resetAllControllers(d), in every controller vector and in the
\* pitch-bend vector the entry in effect at offset d is at offset d with
\* value 0, and the latest value is 0 when d is no earlier than any offset held.
C10_ResetAllControllersZeroes ==
    lastLaneCall.op = "resetAllControllers" =>
        \A events \in ControllerLanes :
            /\ InEffect(events, lastLaneCall.delay) = MidiEvent(lastLaneCall.delay, 0)
            /\ (\A k \in 1 .. Len(events) : events[k].delay <= lastLaneCall.delay)
                   => Latest(events) = 0

\* C10 witness: resetAllControllers(0) ran on a controller that entered the
\* block with a non-zero value and holds a non-zero entry at a later offset.
C10_Witness ==
    /\ lastLaneCall = Call("resetAllControllers", 0)
    /\ cc[0][1].value = 1
    /\ Len(cc[0]) = 3
    /\ cc[0][3] = MidiEvent(1, 1)

\* A note is held when its most recent note event is a note-on taken on the
\* clock still running (no setSampleRate since)
Held(n) == lastNoteEvent[n].kind = "on" /\ ~lastNoteEvent[n].stale

\* a whole number of samples over the sample rate, as a float of seconds
SamplesOverRate(samples) == Seconds([carry |-> 0, low |-> samples], sampleRate)

\* C6: for every held note n, noteOn(d, n, v) having come at clock c, after any
\* advanceTime calls and events on other notes getNoteDuration(n, d') is
\* (internalClock + d' - (c + d)) samples over the sample rate, also when n
\* was played and released before.
C6_HeldNoteDuration ==
    \A n \in NoteInputs, d \in Delays :
        Held(n) =>
            getNoteDuration(n, d) =
                SamplesOverRate(internalClock + d - lastNoteEvent[n].at)

\* C6 amended: the same, provided the query is not earlier than the note-on
\* (internalClock + d' >= c + d) and n holds no non-zero note-off timestamp
\* earlier than c + d; with such a timestamp the result is 0.
ReleasedBefore(n) ==
    /\ noteOffTimes[n] # 0
    /\ noteOffTimes[n] < lastNoteEvent[n].at

C6_HeldNoteDurationUnlessReleased ==
    \A n \in NoteInputs, d \in Delays :
        (Held(n) /\ internalClock + d >= lastNoteEvent[n].at) =>
            getNoteDuration(n, d) =
                IF ReleasedBefore(n) THEN ZeroSeconds
                ELSE SamplesOverRate(internalClock + d - lastNoteEvent[n].at)

\* C6 witness: note 60 is held since sample 1, never released, the clock has
\* advanced past it and the other note has been played and released.
C6_Witness ==
    /\ Held(60)
    /\ lastNoteEvent[60].at = 1
    /\ noteOffTimes[60] = 0
    /\ internalClock = 2
    /\ lastNoteEvent[127].kind = "off"
    /\ lastNoteVelocities[127] # 0

\* C7: getNoteDuration returns 0 whenever the note's stored note-on timestamp
\* is later than its stored note-off timestamp, the sentinel 0 included.
C7_ZeroWhenOnAfterOff ==
    \A n \in NoteInputs, d \in Delays :
        noteOnTimes[n] > noteOffTimes[n] => getNoteDuration(n, d) = ZeroSeconds

\* C7 amended: getNoteDuration returns 0 whenever both stored timestamps are
\* non-zero and the note-on one is the later; when the note-off timestamp is
\* the sentinel 0 the result is (internalClock + offset - on-time) mod 2^32
\* samples over the sample rate.
C7_ZeroWhenOnAfterNonzeroOff ==
    \A n \in NoteInputs, d \in Delays :
        /\ (noteOffTimes[n] # 0 /\ noteOnTimes[n] > noteOffTimes[n])
               => getNoteDuration(n, d) = ZeroSeconds
        /\ (noteOffTimes[n] = 0 /\ noteOnTimes[n] > 0)
               => getNoteDuration(n, d) =
                      Seconds(ToUnsigned(internalClock + d - noteOnTimes[n]), sampleRate)

\* C7 witness: note 60 was released and played again later, and note 127 is
\* played at a non-zero timestamp without ever having been released.
C7_Witness ==
    /\ noteOffTimes[60] # 0
    /\ noteOnTimes[60] > noteOffTimes[60]
    /\ noteOffTimes[127] = 0
    /\ noteOnTimes[127] > 0
    /\ internalClock > noteOnTimes[127]

\* C8: in any reachable state allNotesOff(d) leaves the active-note count at
\* 0 and every note's note-off timestamp at internalClock + d.
C8_AllNotesOffClearsCount ==
    [][\A d \in Delays :
          allNotesOff(d) =>
              /\ activeNotes' = 0
              /\ \A n \in Notes : noteOffTimes'[n] = internalClock + d
      ]_vars

\* C9: the active-note count equals the number of notes whose most recent
\* note event since the last reset is a note-on.
C9_CountIsNotesOn ==
    activeNotes = Cardinality({n \in Notes : lastNoteEvent[n].kind = "on"})

\* everything the object holds, the history variables left out
ProgramState ==
    <<sampleRate, samplesPerBlock, internalClock, activeNotes, lastNotePlayed,
      lastNoteVelocities, noteOnTimes, noteOffTimes, cc, pitchEvents,
      channelAftertouchEvents>>

\* C11: resetAllControllers(d) leaves the channel-aftertouch vector and its
\* latest value unchanged, and leaves every note velocity, every note-on and
\* note-off timestamp, the active count, the last played note and the clock
\* unchanged.
C11_ResetAllControllersFrame ==
    [][\A d \in Delays :
          resetAllControllers(d) =>
              /\ channelAftertouchEvents' = channelAftertouchEvents
              /\ getChannelAftertouch' = getChannelAftertouch
              /\ UNCHANGED <<lastNoteVelocities, noteOnTimes, noteOffTimes,
                             activeNotes, lastNotePlayed, internalClock>>
      ]_vars

\* C11 witness: the controllers were reset in a block that holds an
\* aftertouch event, with a note playing and the clock advanced.
C11_Witness ==
    /\ lastLaneCall.op = "resetAllControllers"
    /\ Len(channelAftertouchEvents) >= 2
    /\ getChannelAftertouch = 1
    /\ activeNotes > 0
    /\ lastNoteVelocities[60] = 1
    /\ noteOnTimes[60] > 0
    /\ internalClock > 0

\* what every query returns: getNoteDuration, getNoteVelocity, getLastVelocity,
\* the three latest-value accessors and the three vector accessors
Queries ==
    [noteDuration |-> [n \in NoteInputs, d \in Delays |-> getNoteDuration(n, d)],
     noteVelocity |-> [n \in Notes |-> getNoteVelocity(n)],
     lastVelocity |-> getLastVelocity,
     ccValue |-> [i \in CCs |-> getCCValue(i)],
     pitchBend |-> getPitchBend,
     channelAftertouch |-> getChannelAftertouch,
     ccEvents |-> cc,
     pitchEvents |-> pitchEvents,
     channelAftertouchEvents |-> channelAftertouchEvents]

\* what they return on an object that was constructed and given a sample rate
FreshQueries(rate) ==
    [noteDuration |-> [n \in NoteInputs, d \in Delays |-> Seconds(ToUnsigned(d), rate)],
     noteVelocity |-> [n \in Notes |-> 0],
     lastVelocity |-> 0,
     ccValue |-> [i \in CCs |-> 0],
     pitchBend |-> 0,
     channelAftertouch |-> 0,
     ccEvents |-> [i \in CCs |-> <<MidiEvent(0, 0)>>],
     pitchEvents |-> <<MidiEvent(0, 0)>>,
     channelAftertouchEvents |-> <<MidiEvent(0, 0)>>]

\* C12: the queries of the constructed object return FreshQueries at the
\* default sample rate, and after any sequence of operations, setSampleRate
\* and setSamplesPerBlock included, reset() makes every query return the same
\* as on a freshly constructed object.
C12_ResetIsFresh ==
    /\ Queries = FreshQueries(DefaultSampleRate)
    /\ [][reset => Queries' = FreshQueries(DefaultSampleRate)]_vars

\* C12 amended: after reset() every query returns what it returns on a
\* freshly constructed object that was given the sample rate in force:
\* reset() keeps the sample rate, so getNoteDuration(n, d) is d samples over
\* that rate; the velocities, the latest values and the vectors are those of
\* a fresh object.
C12_ResetIsFreshAtCurrentRate ==
    /\ Queries = FreshQueries(DefaultSampleRate)
    /\ [][reset => Queries' = FreshQueries(sampleRate)]_vars

\* C12 witness: reset() came last among the vector-writing calls on an object
\* whose sample rate and block length were changed, and the queries answer as
\* on a fresh object at that rate, not at the default one.
C12_Witness ==
    /\ lastLaneCall.op = "reset"
    /\ sampleRate \in SampleRates
    /\ samplesPerBlock \in BlockLengths
    /\ Queries = FreshQueries(sampleRate)
    /\ Queries # FreshQueries(DefaultSampleRate)

\* C13: every operation taking a note number or a controller index tests it
\* against its table: with the index out of range noteOnEvent, noteOffEvent,
\* ccEvent and the reads getNoteVelocity and getCCValue access nothing outside
\* the table, do not fault and change no state, and getNoteDuration returns 0.
C13_OutOfRangeIsNoOp ==
    [][/\ \A d \in Delays, n \in InvalidNotes, v \in Velocities :
            (noteOnEvent(d, n, v) \/ noteOffEvent(d, n, v))
                => (lastOutOfRange' = "ignored" /\ UNCHANGED ProgramState)
       /\ \A d \in Delays, i \in InvalidCCs, v \in CCValues :
            ccEvent(d, i, v)
                => (lastOutOfRange' = "ignored" /\ UNCHANGED ProgramState)
       /\ ReadOutOfRange => lastOutOfRange' = "ignored"
       /\ \A d \in Delays, n \in InvalidNotes : getNoteDuration(n, d) = ZeroSeconds
      ]_vars

C15_VelocityIsLastNoteOn ==
    \A n \in Notes : getNoteVelocity(n) = lastNoteEvent[n].velocity

\* C15 witness: note 60 was played with velocity 2 and released, the sample
\* rate was set afterwards, and note 127 holds another velocity.
C15_Witness ==
    /\ lastNoteEvent[60].kind = "off"
    /\ lastNoteEvent[60].stale
    /\ lastNoteEvent[60].velocity = 2
    /\ lastNoteEvent[127].velocity = 1
    /\ sampleRate \in SampleRates

\* C16: on every step other than reset() (advanceTime with numSamples >= 0,
\* setSampleRate, setSamplesPerBlock, note and controller events) the clock
\* does not decrease.
C16_ClockNeverDecreases ==
    [][~reset => internalClock' >= internalClock]_vars

\* C16 amended: on every step other than reset() and setSampleRate() the
\* clock does not decrease; setSampleRate sets it to 0.
C16_ClockDecreasesOnlyOnRestart ==
    [][/\ (~reset /\ ~(\E r \in SampleRates : setSampleRate(r)))
            => internalClock' >= internalClock
       /\ \A r \in SampleRates : setSampleRate(r) => internalClock' = 0
      ]_vars

\* C16 witness: the clock has advanced after a setSampleRate call, with a
\* note played since and an aftertouch event in the block.
C16_Witness ==
    /\ internalClock > 0
    /\ sampleRate \in SampleRates
    /\ lastNoteEvent[60].kind = "on"
    /\ noteOnTimes[60] = internalClock
    /\ Len(channelAftertouchEvents) >= 2

\* C17: in normal operation (NormalSpec) a getNoteDuration(n, d) call, whose
\* offset d is not below the offsets already used in the block, always finds
\* internalClock + d >= the note-on timestamp of n, so that the unsigned
\* subtraction does not wrap.
C17_NoWrapInNormalOperation ==
    \A n \in Notes, d \in Delays :
        d >= blockOffset =>
            /\ internalClock + d >= noteOnTimes[n]
            /\ ToUnsigned(internalClock + d - noteOnTimes[n]).carry = 0

\* C17 witness: after an advanced block, note 60 is played at a positive
\* offset, the latest used in the block: a query at that offset finds the two
\* sides equal.
C17_Witness ==
    /\ internalClock > 0
    /\ blockOffset > 0
    /\ lastNoteEvent[60].kind = "on"
    /\ noteOnTimes[60] = internalClock + blockOffset

\* C18: setSampleRate(rate) stores rate, sets the clock to 0 and every
\* note-on and note-off timestamp to 0, and leaves the velocities, the active
\* count, the last played note, the block length and every event vector
\* unchanged.
C18_SetSampleRateFrame ==
    [][\A r \in SampleRates :
          setSampleRate(r) =>
              /\ sampleRate' = r
              /\ internalClock' = 0
              /\ \A n \in Notes : noteOnTimes'[n] = 0 /\ noteOffTimes'[n] = 0
              /\ UNCHANGED <<lastNoteVelocities, activeNotes, lastNotePlayed,
                             samplesPerBlock, cc, pitchEvents, channelAftertouchEvents>>
      ]_vars

\* C18 witness: the sample rate was set after note 60 was played at a
\* positive timestamp; its timestamp is 0 again, its velocity and the active
\* count are kept, and the vectors hold events.
C18_Witness ==
    /\ sampleRate \in SampleRates
    /\ lastNoteEvent[60].kind = "on"
    /\ lastNoteEvent[60].stale
    /\ lastNoteEvent[60].at > 0
    /\ noteOnTimes[60] = 0
    /\ internalClock = 0
    /\ lastNoteVelocities[60] = 1
    /\ activeNotes > 0
    /\ Len(channelAftertouchEvents) >= 2
    /\ samplesPerBlock \in BlockLengths

\* C19: noteOffEvent(d, n, v) for a valid n does not keep v: it leaves the
\* velocity of every note, getLastVelocity, the last played note and every
\* note-on timestamp unchanged, and changes only the note-off timestamp of n,
\* to internalClock + d, and the active count, one less but never below 0.
C19_NoteOffFrame ==
    [][\A d \in Delays, n \in NoteInputs, v \in NoteOffVelocities :
          noteOffEvent(d, n, v) =>
              /\ \A m \in Notes : getNoteVelocity(m)' = getNoteVelocity(m)
              /\ getLastVelocity' = getLastVelocity
              /\ UNCHANGED <<lastNotePlayed, noteOnTimes>>
              /\ noteOffTimes' = [noteOffTimes EXCEPT ![n] = internalClock + d]
              /\ activeNotes' = IF activeNotes >= 1 THEN activeNotes - 1 ELSE 0
              /\ UNCHANGED <<sampleRate, samplesPerBlock, internalClock, laneVars>>
      ]_vars

\* C19 witness: note 60, played with velocity 2, was released by a
\* noteOffEvent at offset 1 of the block starting at sample 2, note 127 was
\* played last and never released, and both velocities are still held.
C19_Witness ==
    /\ lastNoteEvent[60].kind = "off"
    /\ noteOffTimes[60] = 3
    /\ noteOffTimes[127] = 0
    /\ lastNoteVelocities[60] = 2
    /\ lastNoteVelocities[127] = 1
    /\ lastNotePlayed = 127
    /\ activeNotes = 1

\* C20: an advanceTime call that follows an advanceTime call, no event having
\* been inserted in between, leaves every event vector as the first call left
\* it; only the clock moves, by the second call's sample count.
C20_AdvanceTwiceKeepsLanes ==
    [][\A n \in BlockSamples :
          (lastLaneCall.op = "advanceTime" /\ advanceTime(n)) =>
              /\ UNCHANGED <<cc, pitchEvents, channelAftertouchEvents>>
              /\ internalClock' = internalClock + n
      ]_vars

\* C20 witness: an advanceTime call has just collapsed vectors that carry
\* non-zero values, and a second call with a positive sample count is enabled.
C20_Witness ==
    /\ lastLaneCall.op = "advanceTime"
    /\ internalClock + 2 <= MaxClock
    /\ cc[0] = <<MidiEvent(0, 1)>>
    /\ pitchEvents = <<MidiEvent(0, -1)>>
    /\ channelAftertouchEvents = <<MidiEvent(0, 1)>>
====
